---- MODULE Spec2Model ----
(***************************************************************************)
(* Model of the Timestamp value type of src/src/lib.rs: the pair           *)
(* (seconds: i64, nanoseconds: i32), its conversions to and from           *)
(* std::time::Duration, chrono::DateTime, f64 and i64, and its sea_query / *)
(* sea_orm storage traits under the two cargo features sqlite_double and   *)
(* sqlite_int.                                                             *)
(*                                                                         *)
(* Numbers keep their real width.  TLC's integers are 32 bits wide, so     *)
(* 64-bit quantities are held as arbitrary-precision naturals: sequences   *)
(* of base-10^4 limbs, least significant first, without leading zeros      *)
(* (<<>> is 0, <<0, 17>> is 170000).  A signed integer is a record         *)
(* [neg, mag].  An f64 is a record [k, neg, m, e]: k = "fin" is the value  *)
(* (-1)^neg * m * 2^e with m odd (or m = 0, e = 0), k = "nan" and          *)
(* k = "inf" are the non-finite values.  f64 operations compute the exact  *)
(* result and round it to 53 significant bits, ties to even.               *)
(***************************************************************************)
EXTENDS Integers, Sequences, FiniteSets, TLC

(***************************************************************************)
(* Arbitrary-precision naturals (the arithmetic of u32, u64, i64 and of    *)
(* the f64 significand).                                                   *)
(***************************************************************************)
Base == 10^4

Limb(a, i) == IF i <= Len(a) THEN a[i] ELSE 0

RECURSIVE NatNorm(_)
NatNorm(a) ==
  IF a = <<>> THEN <<>>
  ELSE IF a[Len(a)] = 0 THEN NatNorm(SubSeq(a, 1, Len(a) - 1))
  ELSE a

RECURSIVE NatOf(_)
NatOf(n) == IF n = 0 THEN <<>> ELSE <<n % Base>> \o NatOf(n \div Base)

RECURSIVE NatToInt(_)
NatToInt(a) == IF a = <<>> THEN 0 ELSE a[1] + Base * NatToInt(Tail(a))

RECURSIVE NatAddFrom(_, _, _, _)
NatAddFrom(a, b, i, c) ==
  IF i > Len(a) /\ i > Len(b)
  THEN (IF c = 0 THEN <<>> ELSE <<c>>)
  ELSE LET s == Limb(a, i) + Limb(b, i) + c
       IN  <<s % Base>> \o NatAddFrom(a, b, i + 1, s \div Base)

NatAdd(a, b) == NatAddFrom(a, b, 1, 0)

RECURSIVE NatCmpFrom(_, _, _)
NatCmpFrom(a, b, i) ==
  IF i = 0 THEN 0
  ELSE IF a[i] < b[i] THEN -1
  ELSE IF a[i] > b[i] THEN 1
  ELSE NatCmpFrom(a, b, i - 1)

\* -1, 0 or 1 as a < b, a = b, a > b
NatCmp(a, b) ==
  IF Len(a) < Len(b) THEN -1
  ELSE IF Len(a) > Len(b) THEN 1
  ELSE NatCmpFrom(a, b, Len(a))

NatLt(a, b) == NatCmp(a, b) < 0
NatLe(a, b) == NatCmp(a, b) <= 0

RECURSIVE NatSubFrom(_, _, _, _)
NatSubFrom(a, b, i, c) ==
  IF i > Len(a) THEN <<>>
  ELSE LET s == a[i] - Limb(b, i) - c
       IN  IF s < 0 THEN <<s + Base>> \o NatSubFrom(a, b, i + 1, 1)
           ELSE <<s>> \o NatSubFrom(a, b, i + 1, 0)

\* a - b for a >= b
NatSub(a, b) == NatNorm(NatSubFrom(a, b, 1, 0))

RECURSIVE NatMulSmallFrom(_, _, _, _)
NatMulSmallFrom(a, k, i, c) ==
  IF i > Len(a) THEN NatOf(c)
  ELSE LET s == a[i] * k + c
       IN  <<s % Base>> \o NatMulSmallFrom(a, k, i + 1, s \div Base)

\* a * k for 0 <= k < Base
NatMulSmall(a, k) == IF k = 0 THEN <<>> ELSE NatMulSmallFrom(a, k, 1, 0)

RECURSIVE NatMul(_, _)
NatMul(a, b) ==
  IF b = <<>> \/ a = <<>> THEN <<>>
  ELSE LET rest == NatMul(a, Tail(b))
       IN  NatAdd(NatMulSmall(a, b[1]), IF rest = <<>> THEN <<>> ELSE <<0>> \o rest)

RECURSIVE NatDivSmallFrom(_, _, _, _)
NatDivSmallFrom(a, k, i, c) ==
  IF i = 0 THEN [q |-> <<>>, r |-> c]
  ELSE LET cur == c * Base + a[i]
           lo  == NatDivSmallFrom(a, k, i - 1, cur % k)
       IN  [q |-> Append(lo.q, cur \div k), r |-> lo.r]

\* quotient (a natural) and remainder (an integer) of a by k, 0 < k < 200000
NatDivSmall(a, k) ==
  LET d == NatDivSmallFrom(a, k, Len(a), 0)
  IN  [q |-> NatNorm(d.q), r |-> d.r]

RECURSIVE Pow2(_)
Pow2(k) == IF k < 13 THEN NatOf(2^k) ELSE NatMulSmall(Pow2(k - 13), 2^13)

RECURSIVE NatShr(_, _)
\* a shifted right by k bits: q = a \div 2^k, and whether a bit was shifted out
NatShr(a, k) ==
  IF k = 0 THEN [q |-> a, sticky |-> FALSE]
  ELSE LET j == IF k < 13 THEN k ELSE 13
           d == NatDivSmall(a, 2^j)
           h == NatShr(d.q, k - j)
       IN  [q |-> h.q, sticky |-> h.sticky \/ d.r # 0]

RECURSIVE NatShl(_, _)
NatShl(a, k) == IF k < 13 THEN NatMulSmall(a, 2^k) ELSE NatShl(NatMulSmall(a, 2^13), k - 13)

RECURSIVE BitLen(_)
\* the number of bits of a: the least k with a < 2^k
BitLen(a) ==
  IF a = <<>> THEN 0
  ELSE IF Len(a) = 1 /\ a[1] < 2 THEN 1
  ELSE IF Len(a) = 1 /\ a[1] < 2^13 THEN 1 + BitLen(<<a[1] \div 2>>)
  ELSE 13 + BitLen(NatDivSmall(a, 2^13).q)

NatEven(a) == a = <<>> \/ a[1] % 2 = 0

(***************************************************************************)
(* Signed integers [neg, mag] and the integer casts of Rust's `as`.        *)
(***************************************************************************)
Z(neg, mag) == [neg |-> neg /\ mag # <<>>, mag |-> mag]

\* a TLC integer (every i32 is one) as a signed integer
ZOf(n) ==
  IF n >= 0 THEN Z(FALSE, NatOf(n))
  ELSE Z(TRUE, NatAdd(NatOf(-(n + 1)), <<1>>))

ZLe(a, b) ==
  IF a.neg /\ ~b.neg THEN TRUE
  ELSE IF ~a.neg /\ b.neg THEN FALSE
  ELSE IF a.neg THEN NatLe(b.mag, a.mag)
  ELSE NatLe(a.mag, b.mag)

ZAdd(a, b) ==
  IF a.neg = b.neg THEN Z(a.neg, NatAdd(a.mag, b.mag))
  ELSE IF NatLe(b.mag, a.mag) THEN Z(a.neg, NatSub(a.mag, b.mag))
  ELSE Z(b.neg, NatSub(b.mag, a.mag))

ZNeg(a) == Z(~a.neg, a.mag)

\* a * k for a small natural k
ZMulSmall(a, k) == Z(a.neg, NatMul(a.mag, NatOf(k)))

\* i64::div_euclid and i64::rem_euclid by a small positive k: the quotient is
\* rounded down, the remainder (a TLC integer) is in 0 .. k-1
ZDivRemEuclid(a, k) ==
  LET d == NatDivSmall(a.mag, k)
  IN  IF ~a.neg THEN [q |-> Z(FALSE, d.q), r |-> d.r]
      ELSE IF d.r = 0 THEN [q |-> Z(TRUE, d.q), r |-> 0]
      ELSE [q |-> Z(TRUE, NatAdd(d.q, <<1>>)), r |-> k - d.r]

\* the signed integer as a TLC integer, for |a| < 2^31
ZToInt(a) == IF a.neg THEN 0 - NatToInt(a.mag) ELSE NatToInt(a.mag)

I64Min == Z(TRUE, Pow2(63))
I64Max == Z(FALSE, NatSub(Pow2(63), <<1>>))
IsI64(a) == ZLe(I64Min, a) /\ ZLe(a, I64Max)

\* `u as i64` for a u64 u: the same 64 bits read as two's complement
U64AsI64(u) == IF NatLt(u, Pow2(63)) THEN Z(FALSE, u) ELSE Z(TRUE, NatSub(Pow2(64), u))

\* `n as u32` for an i32 n: the same 32 bits read as unsigned (a natural)
I32AsU32(n) == IF n >= 0 THEN NatOf(n) ELSE NatSub(Pow2(32), ZOf(n).mag)

\* `u as i32` for a u32 u: the same 32 bits read as two's complement
U32AsI32(u) ==
  IF NatLt(u, Pow2(31)) THEN NatToInt(u)
  ELSE 0 - NatToInt(NatSub(NatSub(Pow2(32), u), <<1>>)) - 1

\* `n as i64` for an i32 n
I32AsI64(n) == ZOf(n)

(***************************************************************************)
(* f64: IEEE 754 binary64 values and the operations the code applies.      *)
(* Exponent underflow (subnormal results) is not modelled: the inputs are  *)
(* kept in the normal range.                                               *)
(***************************************************************************)
F64NaN == [k |-> "nan", neg |-> FALSE, m |-> <<>>, e |-> 0]
F64Inf(neg) == [k |-> "inf", neg |-> neg, m |-> <<>>, e |-> 0]

RECURSIVE F64Canon(_, _, _)
\* the finite value (-1)^neg * m * 2^e with its significand made odd
F64Canon(neg, m, e) ==
  IF m = <<>> THEN [k |-> "fin", neg |-> neg, m |-> <<>>, e |-> 0]
  ELSE IF NatDivSmall(m, 2^13).r = 0 THEN F64Canon(neg, NatDivSmall(m, 2^13).q, e + 13)
  ELSE IF NatEven(m) THEN F64Canon(neg, NatDivSmall(m, 2).q, e + 1)
  ELSE [k |-> "fin", neg |-> neg, m |-> m, e |-> e]

\* (-1)^neg * (m + s) * 2^e, 0 <= s < 1 and s > 0 iff sticky, rounded to the nearest
\* f64 (53 significant bits, ties to even); sticky is only given with m >= 2^53
F64Round(neg, m, e, sticky) ==
  LET L == BitLen(m)
  IN  IF L <= 53 THEN F64Canon(neg, m, e)
      ELSE LET k   == L - 53
               s1  == NatShr(m, k - 1)
               d   == NatDivSmall(s1.q, 2)
               up  == d.r = 1 /\ (s1.sticky \/ sticky \/ ~NatEven(d.q))
               q   == IF up THEN NatAdd(d.q, <<1>>) ELSE d.q
           IN  IF BitLen(q) + e + k > 1024 THEN F64Inf(neg)
               ELSE F64Canon(neg, q, e + k)

\* `a as f64` for an i64 a and for an i32 n
I64AsF64(a) == F64Round(a.neg, a.mag, 0, FALSE)
I32AsF64(n) == I64AsF64(ZOf(n))

\* the literal 1e9 = 1953125 * 2^9
F64_1e9 == F64Canon(FALSE, NatOf(10^9), 0)

\* f64::floor
F64Floor(v) ==
  IF v.k # "fin" \/ v.e >= 0 THEN v
  ELSE LET s == IF 0 - v.e > BitLen(v.m) THEN [q |-> <<>>, sticky |-> TRUE]
                ELSE NatShr(v.m, 0 - v.e)
       IN  IF v.neg THEN F64Round(TRUE, NatAdd(s.q, <<1>>), 0, FALSE)
           ELSE F64Round(FALSE, s.q, 0, FALSE)

\* the exact sum of the finite values a and b, as (-1)^neg * m * 2^e
DyadicSum(a, b) ==
  LET e  == IF a.e < b.e THEN a.e ELSE b.e
      za == Z(a.neg, NatShl(a.m, a.e - e))
      zb == Z(b.neg, NatShl(b.m, b.e - e))
      z  == ZAdd(za, zb)
  IN  [neg |-> z.neg, m |-> z.mag, e |-> e]

\* a + b for finite a, b: the exact sum, rounded
F64AddFin(a, b) ==
  LET z == DyadicSum(a, b)
  IN  IF a.m = <<>> THEN (IF b.m = <<>> THEN F64Canon(a.neg /\ b.neg, <<>>, 0) ELSE b)
      ELSE IF b.m = <<>> THEN a
      ELSE F64Round(z.neg, z.m, z.e, FALSE)

\* the f64 operators + and - 
F64Add(a, b) ==
  IF a.k = "nan" \/ b.k = "nan" THEN F64NaN
  ELSE IF a.k = "inf" /\ b.k = "inf" THEN (IF a.neg = b.neg THEN a ELSE F64NaN)
  ELSE IF a.k = "inf" THEN a
  ELSE IF b.k = "inf" THEN b
  ELSE F64AddFin(a, b)

F64Sub(a, b) == F64Add(a, [b EXCEPT !.neg = ~b.neg])

\* the f64 operator *
F64Mul(a, b) ==
  IF a.k = "nan" \/ b.k = "nan" THEN F64NaN
  ELSE IF a.k = "inf" \/ b.k = "inf"
  THEN (IF (a.k = "fin" /\ a.m = <<>>) \/ (b.k = "fin" /\ b.m = <<>>) THEN F64NaN
        ELSE F64Inf(a.neg # b.neg))
  ELSE F64Round(a.neg # b.neg, NatMul(a.m, b.m), a.e + b.e, FALSE)

\* a / 1e9: the exact quotient a.m * 2^(a.e - 9) / 5^9, rounded.  The dividend is
\* shifted left until the integer quotient has more than 53 bits.
F64DivBy1e9(a) ==
  IF a.k # "fin" THEN a
  ELSE IF a.m = <<>> THEN a
  ELSE LET s  == IF BitLen(a.m) >= 80 THEN 0 ELSE 80 - BitLen(a.m)
           n  == NatShl(a.m, s)
           d1 == NatDivSmall(n, 5^6)
           d2 == NatDivSmall(d1.q, 5^3)
       IN  F64Round(a.neg, d2.q, a.e - 9 - s, d1.r # 0 \/ d2.r # 0)

\* the integer part of a finite v, rounded toward zero; big when |v| >= 2^65
F64Trunc(v) ==
  IF v.e >= 0
  THEN (IF BitLen(v.m) + v.e > 65 THEN [big |-> TRUE, z |-> Z(v.neg, <<>>)]
        ELSE [big |-> FALSE, z |-> Z(v.neg, NatShl(v.m, v.e))])
  ELSE IF 0 - v.e > BitLen(v.m) THEN [big |-> FALSE, z |-> Z(FALSE, <<>>)]
  ELSE [big |-> FALSE, z |-> Z(v.neg, NatShr(v.m, 0 - v.e).q)]

\* `v as i64`: toward zero, saturating, NaN to 0
F64AsI64(v) ==
  IF v.k = "nan" THEN Z(FALSE, <<>>)
  ELSE IF v.k = "inf" THEN (IF v.neg THEN I64Min ELSE I64Max)
  ELSE LET t == F64Trunc(v)
       IN  IF t.big THEN (IF v.neg THEN I64Min ELSE I64Max)
           ELSE IF ~ZLe(I64Min, t.z) THEN I64Min
           ELSE IF ~ZLe(t.z, I64Max) THEN I64Max
           ELSE t.z

I32Min == 0 - 2147483647 - 1
I32Max == 2147483647

\* `v as i32`: toward zero, saturating, NaN to 0
F64AsI32(v) ==
  IF v.k = "nan" THEN 0
  ELSE IF v.k = "inf" THEN (IF v.neg THEN I32Min ELSE I32Max)
  ELSE LET t == F64Trunc(v)
       IN  IF t.big THEN (IF v.neg THEN I32Min ELSE I32Max)
           ELSE IF ~ZLe(ZOf(I32Min), t.z) THEN I32Min
           ELSE IF ~ZLe(t.z, ZOf(I32Max)) THEN I32Max
           ELSE ZToInt(t.z)

(***************************************************************************)
(* Option, Result and panics.                                              *)
(***************************************************************************)
None == <<>>
Some(v) == <<v>>
\* a Result is <<"Ok", value>> or <<"Err", error>>
Ok(v) == <<"Ok", v>>
Err(e) == <<"Err", e>>
IsOk(r) == r[1] = "Ok"
Inner(r) == r[2]
Panic == [panic |-> TRUE]

\* Option::unwrap
Unwrap(o) == IF o = None THEN Panic ELSE o[1]

(***************************************************************************)
(* chrono::DateTime.  A datetime is the UTC date (days from 0001-01-01,    *)
(* day 1), the second of that day, the nanosecond of that second (which    *)
(* runs to 1_999_999_999 within a leap second) and the zone's offset.      *)
(***************************************************************************)
UNIX_EPOCH_DAY == 719163
SecsPerDay == 86400
\* NaiveDate::MIN (-262143-01-01) and NaiveDate::MAX (+262142-12-31) as days from CE
NaiveDateMinDays == 0 - 95746130
NaiveDateMaxDays == 95745399

\* NaiveDate::from_num_days_from_ce_opt
NaiveDate_from_num_days_from_ce_opt(days) ==
  IF days < NaiveDateMinDays \/ days > NaiveDateMaxDays THEN None ELSE Some(days)

\* NaiveTime::from_num_seconds_from_midnight_opt(secs, nano), nano a u32
NaiveTime_from_num_seconds_from_midnight_opt(secs, nano) ==
  IF secs >= SecsPerDay
     \/ NatLe(NatOf(2 * 10^9), nano)
     \/ (NatLe(NatOf(10^9), nano) /\ secs % 60 # 59)
  THEN None
  ELSE Some([secs |-> secs, frac |-> NatToInt(nano)])

\* DateTime::<Utc>::from_timestamp(secs, nsecs): secs an i64, nsecs a u32
DateTime_from_timestamp(secs, nsecs) ==
  LET d    == ZDivRemEuclid(secs, SecsPerDay)
      days == ZAdd(d.q, ZOf(UNIX_EPOCH_DAY))
  IN  IF ~ZLe(ZOf(I32Min), days) \/ ~ZLe(days, ZOf(I32Max)) THEN None
      ELSE LET date == NaiveDate_from_num_days_from_ce_opt(ZToInt(days))
               time == NaiveTime_from_num_seconds_from_midnight_opt(d.r, nsecs)
           IN  IF date = None \/ time = None THEN None
               ELSE Some([days |-> date[1], secs |-> time[1].secs,
                          frac |-> time[1].frac, offset |-> 0])

\* DateTime::timestamp: the seconds of the instant since the epoch, whatever the zone
DateTime_timestamp(dt) ==
  ZAdd(ZMulSmall(ZOf(dt.days - UNIX_EPOCH_DAY), SecsPerDay), ZOf(dt.secs))

\* DateTime::timestamp_subsec_nanos, a u32
DateTime_timestamp_subsec_nanos(dt) == NatOf(dt.frac)

\* DateTime::with_timezone: the same instant in a zone with the given offset
DateTime_with_timezone(dt, offset) == [dt EXCEPT !.offset = offset]

(***************************************************************************)
(* Timestamp and its conversions.                                          *)
(***************************************************************************)
Zero == Z(FALSE, <<>>)

\* struct Timestamp { seconds: i64, nanoseconds: i32 }
Timestamp(seconds, nanoseconds) == [seconds |-> seconds, nanoseconds |-> nanoseconds]

\* Timestamp::default(), derived by prost::Message
Timestamp_default == Timestamp(Zero, 0)

is_empty(self) == self.seconds = Zero /\ self.nanoseconds = 0

\* impl From<Duration> for Timestamp; a Duration is [secs: u64, nanos: u32]
From_Duration(v) == Timestamp(U64AsI64(v.secs), U32AsI32(NatOf(v.nanos)))

\* From<DateTime<TZ>> with the sub-second part read in microseconds
\* (timestamp_subsec_micros for timestamp_subsec_nanos)
From_DateTime_SubsecMicros(v) ==
  Timestamp(DateTime_timestamp(v), U32AsI32(NatOf(v.frac \div 1000)))

\* impl From<DateTime<TZ>> for Timestamp
From_DateTime(v) ==
  LET seconds     == DateTime_timestamp(v)
      nanoseconds == U32AsI32(DateTime_timestamp_subsec_nanos(v))
  IN  Timestamp(seconds, nanoseconds)

\* From<Timestamp> for DateTime<Utc> without the fallback: a plain unwrap
DateTimeUtc_From_Timestamp_Unwrap(v) ==
  Unwrap(DateTime_from_timestamp(v.seconds, I32AsU32(v.nanoseconds)))

\* impl From<Timestamp> for DateTime<Utc>; Panic if the inner unwrap fails
DateTimeUtc_From_Timestamp(v) ==
  LET r == DateTime_from_timestamp(v.seconds, I32AsU32(v.nanoseconds))
  IN  IF r # None THEN r[1] ELSE Unwrap(DateTime_from_timestamp(Zero, NatOf(0)))

datetime(self) == DateTimeUtc_From_Timestamp(self)

\* local_datetime: datetime() moved to the process's zone, whose offset is `offset`
local_datetime(self, offset) ==
  LET dt == datetime(self)
  IN  IF dt = Panic THEN Panic ELSE DateTime_with_timezone(dt, offset)

\* Timestamp::new(): Utc::now() is the clock reading `now`
new(now) == From_DateTime(now)

\* impl From<f64> for Timestamp
From_f64(v) ==
  LET seconds     == F64AsI64(F64Floor(v))
      nanoseconds == F64AsI32(F64Mul(F64Sub(v, F64Floor(v)), F64_1e9))
  IN  Timestamp(seconds, nanoseconds)

\* impl From<Timestamp> for f64
f64_From_Timestamp(ts) ==
  F64Add(I64AsF64(ts.seconds), F64DivBy1e9(I32AsF64(ts.nanoseconds)))

\* impl From<i64> for Timestamp
From_i64(seconds) == Timestamp(seconds, 0)

\* From<Timestamp> for i64 rounding to the nearest second instead of truncating
i64_From_Timestamp_Rounded(ts) ==
  IF ts.nanoseconds >= 5 * 10^8 /\ ts.seconds # I64Max THEN ZAdd(ts.seconds, ZOf(1))
  ELSE ts.seconds

\* impl From<Timestamp> for i64
i64_From_Timestamp(ts) == ts.seconds

(***************************************************************************)
(* sea_query / sea_orm.  A sea_query::Value is <<kind, opt>>: the variant  *)
(* and its Option payload.  features is the build's cargo feature set.     *)
(***************************************************************************)
Value(kind, opt) == <<kind, opt>>
Kind(v) == v[1]
Opt(v) == v[2]

\* cfg!(feature = "sqlite_double"), cfg!(feature = "sqlite_int")
cfg_sqlite_double(f) == f.sqlite_double
cfg_sqlite_int(f) == f.sqlite_int

\* try_from with the usual strict last arm: Err(ValueTypeErr) for any other Value
try_from_Strict(v) ==
  IF Kind(v) = "ChronoDateTimeWithTimeZone" /\ Opt(v) # None THEN Ok(From_DateTime(Opt(v)[1]))
  ELSE IF Kind(v) = "ChronoDateTimeUtc" /\ Opt(v) # None THEN Ok(From_DateTime(Opt(v)[1]))
  ELSE IF Kind(v) = "BigInt" /\ Opt(v) # None THEN Ok(From_i64(Opt(v)[1]))
  ELSE IF Kind(v) = "Double" /\ Opt(v) # None THEN Ok(From_f64(Opt(v)[1]))
  ELSE IF Kind(v) = "Int" /\ Opt(v) # None THEN Ok(From_i64(I32AsI64(Opt(v)[1])))
  ELSE Err(<<"ValueTypeErr">>)

\* <Timestamp as sea_query::ValueType>::try_from
try_from(v) ==
  IF Kind(v) = "ChronoDateTimeWithTimeZone" /\ Opt(v) # None THEN Ok(From_DateTime(Opt(v)[1]))
  ELSE IF Kind(v) = "ChronoDateTimeUtc" /\ Opt(v) # None THEN Ok(From_DateTime(Opt(v)[1]))
  ELSE IF Kind(v) = "BigInt" /\ Opt(v) # None THEN Ok(From_i64(Opt(v)[1]))
  ELSE IF Kind(v) = "Double" /\ Opt(v) # None THEN Ok(From_f64(Opt(v)[1]))
  ELSE IF Kind(v) = "Int" /\ Opt(v) # None THEN Ok(From_i64(I32AsI64(Opt(v)[1])))
  ELSE Ok(Timestamp_default)

type_name == "Timestamp"

\* <f64 / i64 / DateTime<Utc> as sea_query::ValueType>::array_type()
f64_array_type == "Double"
i64_array_type == "BigInt"
DateTimeUtc_array_type == "ChronoDateTimeUtc"

array_type(f) ==
  IF cfg_sqlite_double(f) THEN f64_array_type
  ELSE IF cfg_sqlite_int(f) THEN i64_array_type
  ELSE DateTimeUtc_array_type

\* <f64 / i64 / DateTime<Utc> as sea_query::ValueType>::column_type()
f64_column_type == "Double"
i64_column_type == "BigInteger"
DateTimeUtc_column_type == "TimestampWithTimeZone"

column_type(f) ==
  IF cfg_sqlite_double(f) THEN f64_column_type
  ELSE IF cfg_sqlite_int(f) THEN i64_column_type
  ELSE DateTimeUtc_column_type

\* From<Timestamp> for Value whose datetime branch encodes the seconds alone
Value_From_Timestamp_WholeSeconds(f, v) ==
  IF cfg_sqlite_double(f) THEN Value("Double", Some(f64_From_Timestamp(v)))
  ELSE IF cfg_sqlite_int(f) THEN Value("BigInt", Some(i64_From_Timestamp(v)))
  ELSE LET dt == DateTimeUtc_From_Timestamp(Timestamp(v.seconds, 0))
       IN  IF dt = Panic THEN Panic ELSE Value("ChronoDateTimeUtc", Some(dt))

\* impl From<Timestamp> for sea_query::Value
Value_From_Timestamp(f, v) ==
  IF cfg_sqlite_double(f) THEN Value("Double", Some(f64_From_Timestamp(v)))
  ELSE IF cfg_sqlite_int(f) THEN Value("BigInt", Some(i64_From_Timestamp(v)))
  ELSE LET dt == DateTimeUtc_From_Timestamp(v)
       IN  IF dt = Panic THEN Panic ELSE Value("ChronoDateTimeUtc", Some(dt))

\* <T as sea_orm::TryGetable>::try_get_by(res, index) for the native type whose
\* Value variant is `kind`; cell is what the row holds in that column: the value
\* of the column, or None when the row has no such column.  It gives the payload
\* of a column of that variant, TryGetError::Null for its NULL and
\* TryGetError::DbErr for any other column.
Native_try_get_by(kind, cell) ==
  IF cell = None THEN Err(<<"TryGetError::DbErr">>)
  ELSE IF Kind(cell[1]) # kind THEN Err(<<"TryGetError::DbErr">>)
  ELSE IF Opt(cell[1]) = None THEN Err(<<"TryGetError::Null">>)
  ELSE Ok(Opt(cell[1])[1])

\* try_get_by that turns the native getter's error into the default Timestamp
try_get_by_Lenient(f, cell) ==
  LET kind == IF cfg_sqlite_double(f) THEN "Double"
              ELSE IF cfg_sqlite_int(f) THEN "BigInt"
              ELSE "ChronoDateTimeUtc"
      data == Native_try_get_by(kind, cell)
  IN  IF ~IsOk(data) THEN Ok(Timestamp_default)
      ELSE IF cfg_sqlite_double(f) THEN Ok(From_f64(Inner(data)))
      ELSE IF cfg_sqlite_int(f) THEN Ok(From_i64(Inner(data)))
      ELSE Ok(From_DateTime(Inner(data)))

\* <Timestamp as sea_orm::TryGetable>::try_get_by
try_get_by(f, cell) ==
  IF cfg_sqlite_double(f)
  THEN LET data == Native_try_get_by("Double", cell)
       IN  IF ~IsOk(data) THEN Err(Inner(data)) ELSE Ok(From_f64(Inner(data)))
  ELSE IF cfg_sqlite_int(f)
  THEN LET data == Native_try_get_by("BigInt", cell)
       IN  IF ~IsOk(data) THEN Err(Inner(data)) ELSE Ok(From_i64(Inner(data)))
  ELSE LET data == Native_try_get_by("ChronoDateTimeUtc", cell)
       IN  IF ~IsOk(data) THEN Err(Inner(data)) ELSE Ok(From_DateTime(Inner(data)))

\* null with the two features tested in the other order
null_IntFirst(f) ==
  IF cfg_sqlite_int(f) THEN Value("BigInt", None)
  ELSE IF cfg_sqlite_double(f) THEN Value("Double", None)
  ELSE Value("ChronoDateTimeUtc", None)

\* <Timestamp as sea_query::Nullable>::null
null(f) ==
  IF cfg_sqlite_double(f) THEN Value("Double", None)
  ELSE IF cfg_sqlite_int(f) THEN Value("BigInt", None)
  ELSE Value("ChronoDateTimeUtc", None)

\* try_from_u64 that takes the identity 0 for the empty Timestamp
try_from_u64_ZeroIsEmpty(n) ==
  IF n = NatOf(0) THEN Ok(Timestamp_default)
  ELSE Err(<<"DbErr::ConvertFromU64", "Timestamps not supported">>)

\* <Timestamp as sea_orm::TryFromU64>::try_from_u64
try_from_u64(n) == Err(<<"DbErr::ConvertFromU64", "Timestamps not supported">>)

(***************************************************************************)
(* The inputs the operations are applied to.                               *)
(***************************************************************************)
\* how far around each boundary value the inputs reach
Delta == 1
\* how many operations are applied in a row, each to the result of the one before
MaxChain == 2

Around(center) == {center + d : d \in (0 - Delta) .. Delta}
ZAround(center) == {ZAdd(center, ZOf(d)) : d \in (0 - Delta) .. Delta}

\* the first and the last second chrono's DateTime<Utc> holds
MinUtcSecs == ZMulSmall(ZOf(NaiveDateMinDays - UNIX_EPOCH_DAY), SecsPerDay)
MaxUtcSecs ==
  ZAdd(ZMulSmall(ZOf(NaiveDateMaxDays - UNIX_EPOCH_DAY), SecsPerDay), ZOf(SecsPerDay - 1))

I64Inputs ==
  ZAround(Zero) \cup ZAround(MinUtcSecs) \cup ZAround(MaxUtcSecs)
    \cup {ZOf(0 - 5), ZOf(59), ZOf(1700000000), I64Min, I64Max}

I32Inputs ==
  Around(0) \cup Around(10^9) \cup Around(2 * 10^9) \cup {5 * 10^8, I32Min, I32Max}

TimestampInputs == {Timestamp(s, n) : s \in I64Inputs, n \in I32Inputs}

\* 0.0, 1.5, -0.5, 1700000000.5, 1700000000.123456789, 0.1, -1e-20, 1 - 2^-53,
\* 8210266876799.5, 2^63, -2^63, 1e19, -1e19, the infinities and NaN
F64Inputs ==
  { F64Canon(FALSE, <<>>, 0), F64Canon(FALSE, <<3>>, 0 - 1), F64Canon(TRUE, <<1>>, 0 - 1),
    F64Canon(FALSE, NatAdd(NatShl(NatOf(1700000000), 1), <<1>>), 0 - 1),
    F64Canon(FALSE, <<7815, 51, 3168, 7130>>, 0 - 22),
    F64Canon(TRUE, <<7815, 51, 3168, 7130>>, 0 - 22),
    F64Canon(FALSE, <<6397, 189, 8797, 3602>>, 0 - 55),
    F64Canon(TRUE, <<4579, 7892, 1399, 6646>>, 0 - 119),
    F64Canon(FALSE, <<991, 5474, 1992, 9007>>, 0 - 53),
    F64Canon(FALSE, <<3599, 3375, 4205, 16>>, 0 - 1),
    F64Canon(FALSE, <<1>>, 63), F64Canon(TRUE, <<1>>, 63),
    F64Canon(FALSE, <<8125, 8632, 734, 19>>, 19), F64Canon(TRUE, <<8125, 8632, 734, 19>>, 19),
    F64Inf(FALSE), F64Inf(TRUE), F64NaN }

\* Duration::new(secs, nanos): secs any u64, nanos below 1_000_000_000
DurationInputs ==
  { [secs |-> sc, nanos |-> n] :
      sc \in {NatOf(0), NatOf(1), NatOf(1700000000), NatSub(Pow2(63), <<1>>), Pow2(63),
              NatSub(Pow2(64), <<1>>)},
      n \in {0, 5 * 10^8, 10^9 - 1} }

U64Inputs == {NatOf(0), NatOf(1), NatOf(1700000000), NatSub(Pow2(64), <<1>>)}

\* the zone offsets (seconds east of UTC) of the datetimes and of the process
Offsets == {0, 3600, 0 - 18000}

\* the datetimes chrono can hold: first and last instant, the epoch, a leap second
UtcInputs ==
  { r[1] : r \in { DateTime_from_timestamp(sc, NatOf(n)) :
                     sc \in {Zero, ZOf(0 - 1), ZOf(59), ZOf(1700000000), MinUtcSecs, MaxUtcSecs},
                     n \in {0, 5 * 10^8, 10^9 - 1, 15 * 10^8} } \ {None} }

DateTimeInputs == {DateTime_with_timezone(dt, o) : dt \in UtcInputs, o \in Offsets}

\* a Value of each variant try_from names, with and without a payload, and of
\* variants it does not name
ValueInputs ==
  {Value("ChronoDateTimeWithTimeZone", Some(dt)) : dt \in DateTimeInputs}
    \cup {Value("ChronoDateTimeUtc", Some(dt)) : dt \in UtcInputs}
    \cup {Value("BigInt", Some(i)) : i \in I64Inputs}
    \cup {Value("Double", Some(d)) : d \in F64Inputs}
    \cup {Value("Int", Some(i)) : i \in {0, 0 - 5, 1700000000, I32Min, I32Max}}
    \cup {Value(k, None) : k \in {"ChronoDateTimeWithTimeZone", "ChronoDateTimeUtc", "BigInt",
                                  "Double", "Int", "ChronoDateTime", "String"}}
    \cup {Value("ChronoDateTime", Some(dt)) : dt \in UtcInputs}
    \cup {Value("String", Some("2023-11-14 22:13:20")), Value("Bool", Some(TRUE)),
          Value("BigUnsigned", Some(NatOf(1700000000)))}

Features == [sqlite_double : BOOLEAN, sqlite_int : BOOLEAN]

(***************************************************************************)
(* The state: the build's features, the value in hand <<its type, it>>,    *)
(* and the operations applied since the input was drawn, each with the     *)
(* value it was applied to.                                                *)
(***************************************************************************)
VARIABLES features, hand, hist

vars == <<features, hand, hist>>

Hand(t, v) == <<t, v>>
TypeOf(h) == h[1]
ValOf(h) == h[2]
\* the result of an operation that may panic
HandOrPanic(t, v) == IF v = Panic THEN Hand("panic", <<>>) ELSE Hand(t, v)

Init ==
  /\ features \in Features
  /\ hist = <<>>
  /\ \/ hand \in {Hand("Timestamp", ts) : ts \in TimestampInputs}
     \/ hand \in {Hand("f64", v) : v \in F64Inputs}
     \/ hand \in {Hand("i64", v) : v \in I64Inputs}
     \/ hand \in {Hand("Duration", v) : v \in DurationInputs}
     \/ hand \in {Hand("DateTime", v) : v \in DateTimeInputs}
     \/ hand \in {Hand("Value", v) : v \in ValueInputs}
     \/ hand \in {Hand("u64", v) : v \in U64Inputs}
     \/ hand \in {Hand("NoColumn", <<>>), Hand("unit", <<>>)}

\* operation op is applied to the value in hand, which is of type t, and gives r
Apply(op, t, r) ==
  /\ TypeOf(hand) = t
  /\ Len(hist) < MaxChain
  /\ hand' = r
  /\ hist' = Append(hist, [op |-> op, arg |-> hand])
  /\ UNCHANGED features

Do_is_empty == Apply("is_empty", "Timestamp", Hand("bool", is_empty(ValOf(hand))))

Do_From_Duration == Apply("From_Duration", "Duration", Hand("Timestamp", From_Duration(ValOf(hand))))

Do_From_DateTime == Apply("From_DateTime", "DateTime", Hand("Timestamp", From_DateTime(ValOf(hand))))

Do_DateTimeUtc_From_Timestamp ==
  Apply("DateTimeUtc_From_Timestamp", "Timestamp",
        HandOrPanic("DateTime", DateTimeUtc_From_Timestamp(ValOf(hand))))

Do_datetime == Apply("datetime", "Timestamp", HandOrPanic("DateTime", datetime(ValOf(hand))))

Do_local_datetime ==
  \E o \in Offsets :
    Apply("local_datetime", "Timestamp", HandOrPanic("DateTime", local_datetime(ValOf(hand), o)))

Do_new == \E now \in UtcInputs : Apply("new", "unit", Hand("Timestamp", new(now)))

Do_From_f64 == Apply("From_f64", "f64", Hand("Timestamp", From_f64(ValOf(hand))))

Do_f64_From_Timestamp ==
  Apply("f64_From_Timestamp", "Timestamp", Hand("f64", f64_From_Timestamp(ValOf(hand))))

Do_From_i64 == Apply("From_i64", "i64", Hand("Timestamp", From_i64(ValOf(hand))))

Do_i64_From_Timestamp ==
  Apply("i64_From_Timestamp", "Timestamp", Hand("i64", i64_From_Timestamp(ValOf(hand))))

Do_try_from == Apply("try_from", "Value", Hand("Result", try_from(ValOf(hand))))

Do_type_name == Apply("type_name", "unit", Hand("String", type_name))

Do_array_type == Apply("array_type", "unit", Hand("ArrayType", array_type(features)))

Do_column_type == Apply("column_type", "unit", Hand("ColumnType", column_type(features)))

Do_Value_From_Timestamp ==
  Apply("Value_From_Timestamp", "Timestamp",
        HandOrPanic("Value", Value_From_Timestamp(features, ValOf(hand))))

\* the row holds the value in hand in the column read, or has no such column
Do_try_get_by ==
  Apply("try_get_by", IF TypeOf(hand) = "NoColumn" THEN "NoColumn" ELSE "Value",
        Hand("Result", try_get_by(features, IF TypeOf(hand) = "NoColumn" THEN None ELSE Some(ValOf(hand)))))

Do_null == Apply("null", "unit", Hand("Value", null(features)))

Do_try_from_u64 == Apply("try_from_u64", "u64", Hand("Result", try_from_u64(ValOf(hand))))

Next ==
  \/ Do_is_empty
  \/ Do_From_Duration
  \/ Do_From_DateTime
  \/ Do_DateTimeUtc_From_Timestamp
  \/ Do_datetime
  \/ Do_local_datetime
  \/ Do_new
  \/ Do_From_f64
  \/ Do_f64_From_Timestamp
  \/ Do_From_i64
  \/ Do_i64_From_Timestamp
  \/ Do_try_from
  \/ Do_type_name
  \/ Do_array_type
  \/ Do_column_type
  \/ Do_Value_From_Timestamp
  \/ Do_try_get_by
  \/ Do_null
  \/ Do_try_from_u64

Spec == Init /\ [][Next]_vars
(***************************************************************************)
(* The claims.  Step i of a behaviour applied hist[i].op to the value       *)
(* Arg(i) and gave the value Out(i), of type OutType(i).                   *)
(***************************************************************************)
Steps == 1 .. Len(hist)
Res(i) == IF i = Len(hist) THEN hand ELSE hist[i + 1].arg
Arg(i) == ValOf(hist[i].arg)
ArgType(i) == TypeOf(hist[i].arg)
Out(i) == ValOf(Res(i))
OutType(i) == TypeOf(Res(i))
\* step i and the step after it are op1 and then op2
Pair(i, op1, op2) == i + 1 <= Len(hist) /\ hist[i].op = op1 /\ hist[i + 1].op = op2

NanosInRange(ts) == 0 <= ts.nanoseconds /\ ts.nanoseconds <= 999999999
\* the seconds are within what chrono's DateTime<Utc> holds
SecondsInCalendar(ts) == ZLe(MinUtcSecs, ts.seconds) /\ ZLe(ts.seconds, MaxUtcSecs)

\* C1 as stated: for all non-negative seconds and nanoseconds in [0, 999_999_999],
\* Timestamp -> DateTime<Utc> -> Timestamp returns the Timestamp it started from.
C1_RoundTripAllNonNegative ==
  \A i \in Steps :
    (/\ Pair(i, "DateTimeUtc_From_Timestamp", "From_DateTime")
     /\ ZLe(Zero, Arg(i).seconds)
     /\ NanosInRange(Arg(i)))
      => Res(i + 1) = hist[i].arg

\* C1 amended: the same for seconds from 0 up to the last second the calendar type
\* holds (8_210_266_876_799); beyond it the round trip gives Timestamp{0, 0}.
C1_RoundTripInCalendar ==
  \A i \in Steps :
    (/\ Pair(i, "DateTimeUtc_From_Timestamp", "From_DateTime")
     /\ ZLe(Zero, Arg(i).seconds)
     /\ NanosInRange(Arg(i)))
      => IF ZLe(Arg(i).seconds, MaxUtcSecs)
         THEN Res(i + 1) = hist[i].arg
         ELSE Res(i + 1) = Hand("Timestamp", Timestamp(Zero, 0))

C1_Witness ==
  /\ Len(hist) = 2
  /\ Pair(1, "DateTimeUtc_From_Timestamp", "From_DateTime")
  /\ Arg(1) = Timestamp(ZOf(1700000000), 999999999)
  /\ hand = hist[1].arg

\* C2: ValueType::try_from never returns an error, in any build: a Value of a variant
\* it names with a payload gives the matching conversion of the payload, every other
\* Value gives Ok(Timestamp{0, 0}).
C2_TryFromNeverFails ==
  \A i \in Steps :
    hist[i].op = "try_from" =>
      LET v  == Arg(i)
          ts == Inner(Out(i))
      IN  /\ IsOk(Out(i))
          /\ IF Opt(v) = None THEN ts = Timestamp(Zero, 0)
             ELSE IF Kind(v) \in {"ChronoDateTimeWithTimeZone", "ChronoDateTimeUtc"}
             THEN /\ ts.seconds = DateTime_timestamp(Opt(v)[1])
                  /\ ts.nanoseconds = Opt(v)[1].frac
             ELSE IF Kind(v) = "BigInt" THEN ts = Timestamp(Opt(v)[1], 0)
             ELSE IF Kind(v) = "Int" THEN ts = Timestamp(ZOf(Opt(v)[1]), 0)
             ELSE IF Kind(v) = "Double" THEN ts = From_f64(Opt(v)[1])
             ELSE ts = Timestamp(Zero, 0)

\* a Double is decoded in a build whose encoding is not double, and a String is not
C2_Witness ==
  /\ Len(hist) = 1 /\ hist[1].op = "try_from"
  /\ ~features.sqlite_double /\ features.sqlite_int
  /\ Kind(Arg(1)) = "Double" /\ Opt(Arg(1)) # None
  /\ ValOf(hand) = Ok(Timestamp(ZOf(1), 5 * 10^8))

Failed(r) == TypeOf(r) = "panic" \/ (TypeOf(r) = "Result" /\ ~IsOk(ValOf(r)))

\* C4 as stated: only try_from_u64 ever fails; every other operation, try_get_by in
\* every build included, gives a value.
C4_OnlyTryFromU64Fails ==
  \A i \in Steps : Failed(Res(i)) => hist[i].op = "try_from_u64"

\* the Value variant the build's encoding reads and writes, as the claims state it:
\* datetime with neither feature, double whenever sqlite_double is set
ActiveKind ==
  IF features.sqlite_double THEN "Double"
  ELSE IF features.sqlite_int THEN "BigInt"
  ELSE "ChronoDateTimeUtc"

\* C4 amended: besides try_from_u64, only try_get_by fails, and only with the error
\* of the native getter it delegates to: TryGetError::Null for a NULL column of the
\* build's native kind, TryGetError::DbErr for a missing or differently typed column.
C4_OnlyTryFromU64AndGetterErrorsFail ==
  \A i \in Steps :
    /\ Failed(Res(i)) => hist[i].op \in {"try_from_u64", "try_get_by"}
    /\ hist[i].op = "try_get_by" =>
         IF ArgType(i) = "NoColumn" \/ Kind(Arg(i)) # ActiveKind
         THEN Out(i) = Err(<<"TryGetError::DbErr">>)
         ELSE IF Opt(Arg(i)) = None THEN Out(i) = Err(<<"TryGetError::Null">>)
         ELSE IsOk(Out(i))

C4_Witness ==
  /\ Len(hist) = 1 /\ hist[1].op = "try_get_by"
  /\ hist[1].arg = Hand("Value", Value("ChronoDateTimeUtc", None))
  /\ ~features.sqlite_double /\ ~features.sqlite_int
  /\ ValOf(hand) = Err(<<"TryGetError::Null">>)

\* C5: try_from_u64 returns DbErr::ConvertFromU64("Timestamps not supported") for
\* every u64, 0 included, in every build.
C5_TryFromU64AlwaysErr ==
  \A i \in Steps :
    hist[i].op = "try_from_u64" =>
      Out(i) = Err(<<"DbErr::ConvertFromU64", "Timestamps not supported">>)

C5_Witness ==
  /\ Len(hist) = 1 /\ hist[1].op = "try_from_u64"
  /\ Arg(1) = NatOf(0)
  /\ features.sqlite_double /\ features.sqlite_int
  /\ ~IsOk(ValOf(hand))

\* C6: Timestamp -> i64 -> Timestamp keeps the seconds and sets the nanoseconds to 0,
\* for every i64 seconds and every nanoseconds.
C6_I64RoundTrip ==
  \A i \in Steps :
    Pair(i, "i64_From_Timestamp", "From_i64") =>
      /\ Out(i + 1).seconds = Arg(i).seconds
      /\ Out(i + 1).nanoseconds = 0

C6_Witness ==
  /\ Len(hist) = 2 /\ Pair(1, "i64_From_Timestamp", "From_i64")
  /\ Arg(1) = Timestamp(I64Min, 999999999)
  /\ ValOf(hand) = Timestamp(I64Min, 0)

\* the exact difference a - b of two finite f64
DyadicDiff(a, b) == DyadicSum(a, [b EXCEPT !.neg = ~b.neg])
\* 0 <= d < 1 and |d| <= 10^-6 for an exact d = (-1)^neg * m * 2^e
DyadicInUnit(d) ==
  d.m = <<>> \/ (~d.neg /\ d.e < 0 /\ NatLt(d.m, Pow2(0 - d.e)))
DyadicWithinMicro(d) ==
  d.m = <<>> \/ (d.e < 0 /\ NatLe(NatMul(d.m, NatOf(10^6)), Pow2(0 - d.e)))
\* an i64 as the finite f64-shaped value it is, unrounded
ZAsDyadic(z) == [k |-> "fin", neg |-> z.neg, m |-> z.mag, e |-> 0]
\* v is finite and -2^63 <= v < 2^63
F64InI64Range(v) ==
  /\ v.k = "fin"
  /\ LET d == DyadicDiff(v, ZAsDyadic(I64Min))
         u == DyadicDiff(ZAsDyadic(I64Max), v)
     IN  (d.m = <<>> \/ ~d.neg) /\ (u.m = <<>> \/ ~u.neg)

\* C7 as stated: for epoch seconds v, From<f64> gives seconds = floor(v) and
\* nanoseconds in [0, 999_999_999], also for negative v; converting back gives v
\* within 1e-6; Timestamp{1700000000, 500000000} goes to 1700000000.5 and back.
C7_FromF64InRange ==
  \A i \in Steps :
    /\ (hist[i].op = "From_f64" /\ F64InI64Range(Arg(i))) =>
         /\ DyadicInUnit(DyadicDiff(Arg(i), ZAsDyadic(Out(i).seconds)))
         /\ NanosInRange(Out(i))
    /\ (Pair(i, "From_f64", "f64_From_Timestamp") /\ F64InI64Range(Arg(i))) =>
         /\ Out(i + 1).k = "fin"
         /\ DyadicWithinMicro(DyadicDiff(Out(i + 1), Arg(i)))
    /\ (Pair(i, "f64_From_Timestamp", "From_f64")
          /\ Arg(i) = Timestamp(ZOf(1700000000), 5 * 10^8)) =>
         /\ Out(i) = F64Canon(FALSE, NatAdd(NatShl(NatOf(1700000000), 1), <<1>>), 0 - 1)
         /\ Res(i + 1) = hist[i].arg

\* C8: Timestamp -> DateTime<Utc> never panics; it gives the Unix epoch when the
\* seconds are outside the calendar range, the nanoseconds are negative, or they
\* are 1_000_000_000 or more outside a leap second (a second :59 holding less than
\* 2_000_000_000); otherwise the instant with those seconds and nanoseconds.
CalendarHolds(ts) ==
  /\ SecondsInCalendar(ts)
  /\ 0 <= ts.nanoseconds
  /\ \/ ts.nanoseconds < 10^9
     \/ ts.nanoseconds < 2 * 10^9 /\ ZDivRemEuclid(ts.seconds, 60).r = 59

C9_FromDurationCopies ==
  \A i \in Steps :
    hist[i].op = "From_Duration" =>
      /\ Out(i).seconds = Z(FALSE, Arg(i).secs)
      /\ Out(i).nanoseconds = Arg(i).nanos
      /\ NanosInRange(Out(i))

\* C10: in each of the four builds the five operations that depend on the features
\* use one native kind, ActiveKind: the Value an encode emits, the null sentinel,
\* the column type, the array type, and the column kind try_get_by reads; so
\* try_get_by reads back what the build encodes, and reads its null as a NULL.
ColumnTypeOf(kind) ==
  IF kind = "Double" THEN "Double"
  ELSE IF kind = "BigInt" THEN "BigInteger"
  ELSE "TimestampWithTimeZone"

C10_OneEncodingPerBuild ==
  \A i \in Steps :
    /\ hist[i].op = "Value_From_Timestamp" =>
         OutType(i) = "Value" /\ Kind(Out(i)) = ActiveKind /\ Opt(Out(i)) # None
    /\ hist[i].op = "null" => Out(i) = Value(ActiveKind, None)
    /\ hist[i].op = "column_type" => Out(i) = ColumnTypeOf(ActiveKind)
    /\ hist[i].op = "array_type" => Out(i) = ActiveKind
    /\ (hist[i].op = "try_get_by" /\ ArgType(i) = "Value") =>
         (IsOk(Out(i)) <=> (Kind(Arg(i)) = ActiveKind /\ Opt(Arg(i)) # None))
    /\ Pair(i, "Value_From_Timestamp", "try_get_by") => IsOk(Out(i + 1))
    /\ Pair(i, "null", "try_get_by") => Out(i + 1) = Err(<<"TryGetError::Null">>)

\* with both features set the build's null is a Double, and try_get_by reads it as NULL
C10_Witness ==
  /\ Len(hist) = 2 /\ Pair(1, "null", "try_get_by")
  /\ features.sqlite_double /\ features.sqlite_int
  /\ Arg(2) = Value("Double", None)
  /\ ValOf(hand) = Err(<<"TryGetError::Null">>)
====
